---------------------------- MODULE Spec2Model ----------------------------
(***************************************************************************)
(* The FastAPI lessons                                                     *)
(*   src/30securityoauthjwt.py   (bcrypt + JWT, "the JWT lesson")           *)
(*   src/29securitysimpleOauth.py ("the simple OAuth2 lesson")              *)
(*   src/28securitygetcurrentuser.py, src/26dependencieswithyield.py,      *)
(*   src/25globaldependences.py, src/23dependency-subdependencies.py and   *)
(*   the application of src/app/.                                          *)
(* Spec is the JWT and simple OAuth2 lessons, SpecInflight the JWT lesson  *)
(* with requests in flight, SpecHash its password hashing, SpecDeps the    *)
(* dependency pipelines, SpecYield the dependencies-with-yield lesson.     *)
(*                                                                         *)
(* Conventions.                                                            *)
(*  - Python None / False are the records None / False; an Optional        *)
(*    timedelta is a sequence: <<>> is None, <<n>> is timedelta(minutes=n). *)
(*  - The clock counts minutes; a JWT NumericDate is an integer.           *)
(*  - A bcrypt hash is the pair of its salt and its digest; the digest of  *)
(*    (salt, password) is modelled as that pair (an injective digest).     *)
(*  - A JWT is the record of its decoded parts: header alg, the claims sub *)
(*    and exp, and the signature; an HS256 signature of claims under a key *)
(*    is modelled as the tuple <<key, sub, exp>> (an unforgeable MAC).      *)
(*  - Of an account only username, hashed_password and disabled are kept;  *)
(*    full_name and email are never read by the code modelled here.        *)
(***************************************************************************)
EXTENDS Integers, Sequences, FiniteSets, TLC

VARIABLES
    now,            \* datetime.now(timezone.utc), in minutes
    fake_users_db,  \* the user directory of the JWT lesson
    issued,         \* token strings returned by create_access_token so far
    issued_active,  \* those returned by POST /token to an account that was
                    \* not disabled at that moment
    last,           \* the last call or request and what it returned
    hashes,         \* the calls of get_password_hash so far, with their results
    fake_items_db,  \* the items of src/app/routers/items.py
    items_db,       \* the items of the dependencies-with-yield lesson
    next_id,        \* its id counter
    sessions,       \* the DBSession objects get_db has constructed
    requests,       \* its requests: where each one is and what it holds
    inflight        \* requests of the JWT lesson that are being handled

\* the state of the JWT lesson
jwt_state == <<now, fake_users_db, issued, issued_active>>

\* the state of the other lessons
hash_state == <<hashes>>
items_state == <<fake_items_db>>
yield_state == <<items_db, next_id, sessions, requests>>
inflight_state == <<inflight>>

vars == <<jwt_state, last, hash_state, items_state, yield_state,
          inflight_state>>

-----------------------------------------------------------------------------
(* Bounds of the model *)

MaxTicks == 1       \* clock advances observed
MaxIssued == 1      \* tokens tracked in flight
MaxHashes == 2      \* calls of get_password_hash
MaxRequests == 3    \* requests to the dependencies-with-yield app
MaxInflight == 2    \* requests of the JWT lesson handled at once

-----------------------------------------------------------------------------
(* Program constants *)

SECRET_KEY == "09d25e09"
ALGORITHM == "HS256"
ACCESS_TOKEN_EXPIRE_MINUTES == 30

HTTP_400_BAD_REQUEST == 400
HTTP_401_UNAUTHORIZED == 401

None == [py |-> "None"]
False == [py |-> "False"]

-----------------------------------------------------------------------------
(* Inputs *)

Usernames == {"johndoe", "alice"}
Passwords == {"secret", "secret2"}
ATTACKER_KEY == "attacker"

-----------------------------------------------------------------------------
(* bcrypt *)

hashpw(password, salt) == [salt |-> salt, digest |-> <<salt, password>>]

checkpw(password, hashed) == hashpw(password, hashed.salt) = hashed

verify_password(plain_password, hashed_password) ==
    checkpw(plain_password, hashed_password)

-----------------------------------------------------------------------------
(* The user directory of the JWT lesson *)

UserInDB(username, hashed_password, disabled) ==
    [username |-> username, hashed_password |-> hashed_password,
     disabled |-> disabled]

initial_fake_users_db ==
    [u \in {"johndoe"} |->
        UserInDB("johndoe", hashpw("secret", "EixZaYVK"), FALSE)]

\* mutant: makes up an account for a name the directory does not hold
get_user_synthesize(db, username) ==
    IF username \in DOMAIN db
    THEN db[username]
    ELSE UserInDB(username, hashpw("", ""), FALSE)

get_user(db, username) ==
    IF username \in DOMAIN db THEN db[username] ELSE None

\* mutant: tells an unknown name (None) from a wrong password (False)
authenticate_user_none_for_unknown(fake_db, username, password) ==
    LET user == get_user(fake_db, username) IN
    IF user = None
    THEN None
    ELSE IF verify_password(password, user.hashed_password)
    THEN user
    ELSE False

\* mutant: refuses a disabled account
authenticate_user_checks_disabled(fake_db, username, password) ==
    LET user == get_user(fake_db, username) IN
    IF user # None /\ verify_password(password, user.hashed_password)
       /\ ~user.disabled
    THEN user
    ELSE False

authenticate_user(fake_db, username, password) ==
    LET user == get_user(fake_db, username) IN
    IF user # None /\ verify_password(password, user.hashed_password)
    THEN user
    ELSE False

\* the calls authenticate_user makes, in order: `user and verify_password(..)`
\* evaluates its right operand only when user is truthy
authenticate_user_steps(fake_db, username, password) ==
    LET user == get_user(fake_db, username) IN
    <<"get_user">> \o (IF user # None THEN <<"verify_password">> ELSE <<>>)

-----------------------------------------------------------------------------
(* Python results *)

Return(value) == [raised |-> FALSE, value |-> value]
Raise(exc) == [raised |-> TRUE, exc |-> exc]

HTTPException(status_code, detail, headers) ==
    [status_code |-> status_code, detail |-> detail, headers |-> headers]

WWW_Authenticate_Bearer == {<<"WWW-Authenticate", "Bearer">>}

\* `not user` for a value that is an account, False or None
Falsy(user) == user = False \/ user = None

Truthy(expires_delta) == expires_delta # <<>> /\ expires_delta[1] # 0

-----------------------------------------------------------------------------
(* PyJWT, HS256 *)

Malformed == [garbage |-> "not.a.jwt"]

sign(header, payload, key) == <<key, header, payload>>

jwt_encode(payload, key, algorithm) ==
    LET header == [alg |-> algorithm] IN
    [header |-> header, payload |-> payload,
     signature |-> sign(header, payload, key)]

\* the options of jwt.decode when the caller passes none
default_options == [verify_signature |-> TRUE, verify_exp |-> TRUE]

\* jwt.decode(token, key, algorithms, options) at verifier time clock: the
\* payload, or the InvalidTokenError subclass raised
\* mutant: treats a token as expired one minute before its exp
jwt_decode_early(token, key, algorithms, options, clock) ==
    IF token = Malformed
    THEN Raise("DecodeError")
    ELSE IF options.verify_signature /\ token.header.alg \notin algorithms
    THEN Raise("InvalidAlgorithmError")
    ELSE IF options.verify_signature
            /\ token.signature # sign(token.header, token.payload, key)
    THEN Raise("InvalidSignatureError")
    ELSE IF options.verify_exp /\ "exp" \in DOMAIN token.payload
            /\ token.payload.exp <= clock + 1
    THEN Raise("ExpiredSignatureError")
    ELSE Return(token.payload)

jwt_decode(token, key, algorithms, options, clock) ==
    IF token = Malformed
    THEN Raise("DecodeError")
    ELSE IF options.verify_signature /\ token.header.alg \notin algorithms
    THEN Raise("InvalidAlgorithmError")
    ELSE IF options.verify_signature
            /\ token.signature # sign(token.header, token.payload, key)
    THEN Raise("InvalidSignatureError")
    ELSE IF options.verify_exp /\ "exp" \in DOMAIN token.payload
            /\ token.payload.exp <= clock
    THEN Raise("ExpiredSignatureError")
    ELSE Return(token.payload)

-----------------------------------------------------------------------------
(* The JWT lesson: tokens *)

dict_update(d, key, value) ==
    [k \in DOMAIN d \cup {key} |-> IF k = key THEN value ELSE d[k]]

create_access_token(data, expires_delta, clock) ==
    LET expire == IF Truthy(expires_delta)
                  THEN clock + expires_delta[1]
                  ELSE clock + ACCESS_TOKEN_EXPIRE_MINUTES
        to_encode == dict_update(data, "exp", expire)
    IN jwt_encode(to_encode, SECRET_KEY, ALGORITHM)

\* the three raise sites of get_current_user
missing_sub_exception ==
    HTTPException(HTTP_401_UNAUTHORIZED, "Invalid authentication credentials",
                  WWW_Authenticate_Bearer)

invalid_token_exception ==
    HTTPException(HTTP_401_UNAUTHORIZED, "Invalid authentication credentials",
                  WWW_Authenticate_Bearer)

\* mutant: names the check that failed
unknown_user_exception_leaky ==
    HTTPException(HTTP_401_UNAUTHORIZED, "User not found",
                  WWW_Authenticate_Bearer)

unknown_user_exception ==
    HTTPException(HTTP_401_UNAUTHORIZED, "Invalid authentication credentials",
                  WWW_Authenticate_Bearer)

\* mutant: decodes without checking the expiry
get_current_user_no_exp(token, db, clock) ==
    LET decoded == jwt_decode(token, SECRET_KEY, {ALGORITHM},
                              [default_options EXCEPT !.verify_exp = FALSE], clock) IN
    IF decoded.raised
    THEN Raise(invalid_token_exception)
    ELSE IF "sub" \notin DOMAIN decoded.value
    THEN Raise(missing_sub_exception)
    ELSE LET user == get_user(db, decoded.value.sub) IN
         IF user = None
         THEN Raise(unknown_user_exception)
         ELSE Return(user)

\* mutant: decodes without checking the signature
get_current_user_unverified(token, db, clock) ==
    LET decoded == jwt_decode(token, SECRET_KEY, {ALGORITHM},
                              [default_options EXCEPT !.verify_signature = FALSE], clock) IN
    IF decoded.raised
    THEN Raise(invalid_token_exception)
    ELSE IF "sub" \notin DOMAIN decoded.value
    THEN Raise(missing_sub_exception)
    ELSE LET user == get_user(db, decoded.value.sub) IN
         IF user = None
         THEN Raise(unknown_user_exception)
         ELSE Return(user)

get_current_user(token, db, clock) ==
    LET decoded == jwt_decode(token, SECRET_KEY, {ALGORITHM},
                              default_options, clock) IN
    IF decoded.raised
    THEN Raise(invalid_token_exception)
    ELSE IF "sub" \notin DOMAIN decoded.value
    THEN Raise(missing_sub_exception)
    ELSE LET user == get_user(db, decoded.value.sub) IN
         IF user = None
         THEN Raise(unknown_user_exception)
         ELSE Return(user)

\* mutant: answers an inactive account with the status of a bad token
inactive_user_exception_401 ==
    HTTPException(HTTP_401_UNAUTHORIZED, "Inactive user",
                  WWW_Authenticate_Bearer)

inactive_user_exception ==
    HTTPException(HTTP_400_BAD_REQUEST, "Inactive user",
                  WWW_Authenticate_Bearer)

\* mutant: lets every account pass
get_current_active_user_no_check(current_user) == Return(current_user)

get_current_active_user(current_user) ==
    IF current_user.disabled
    THEN Raise(inactive_user_exception)
    ELSE Return(current_user)

invalid_credentials_exception ==
    HTTPException(HTTP_401_UNAUTHORIZED, "Invalid credentials",
                  WWW_Authenticate_Bearer)


-----------------------------------------------------------------------------
(* The simple OAuth2 lesson *)

fake_hash_password(password) == <<"fakehashed", password>>

fake_users_db_simple ==
    [u \in {"johndoe", "alice"} |->
        IF u = "johndoe"
        THEN UserInDB("johndoe", fake_hash_password("secret"), FALSE)
        ELSE UserInDB("alice", fake_hash_password("secret2"), TRUE)]

get_user_simple(db, username) ==
    IF username \in DOMAIN db THEN db[username] ELSE None

fake_decode_token(token) == get_user_simple(fake_users_db_simple, token)

get_current_user_simple(token) ==
    LET user == fake_decode_token(token) IN
    IF user = None
    THEN Raise(HTTPException(HTTP_401_UNAUTHORIZED,
                             "Invalid authentication credentials", {}))
    ELSE Return(user)

get_current_active_user_simple(current_user) ==
    IF current_user.disabled
    THEN Raise(HTTPException(HTTP_400_BAD_REQUEST, "Inactive user", {}))
    ELSE Return(current_user)

-----------------------------------------------------------------------------
(* HTTP: what the client sees *)

\* FastAPI's handler of HTTPException
ExceptionResponse(exc) ==
    [status_code |-> exc.status_code, body |-> [detail |-> exc.detail],
     headers |-> exc.headers]

JSONResponse(body) == [status_code |-> 200, body |-> body, headers |-> {}]

\* POST /token of the simple OAuth2 lesson
login(username, password) ==
    LET user == get_user_simple(fake_users_db_simple, username) IN
    IF Falsy(user) \/ ~(fake_hash_password(password) = user.hashed_password)
    THEN ExceptionResponse(HTTPException(HTTP_401_UNAUTHORIZED,
                                         "Incorrect username or password", {}))
    ELSE JSONResponse([access_token |-> user.username, token_type |-> "bearer"])

\* POST /token of the JWT lesson
\* mutant: capitalises the token type
login_for_access_token_capitalised(username, password, db, clock) ==
    LET user == authenticate_user(db, username, password) IN
    IF Falsy(user)
    THEN ExceptionResponse(invalid_credentials_exception)
    ELSE JSONResponse(
            [access_token |-> create_access_token([sub |-> user.username],
                                                  <<>>, clock),
             token_type |-> "Bearer"])

\* mutant: names the documentation's example account in every token
login_for_access_token_fixed_sub(username, password, db, clock) ==
    LET user == authenticate_user(db, username, password) IN
    IF Falsy(user)
    THEN ExceptionResponse(invalid_credentials_exception)
    ELSE JSONResponse(
            [access_token |-> create_access_token([sub |-> "johndoe"],
                                                  <<>>, clock),
             token_type |-> "bearer"])

login_for_access_token(username, password, db, clock) ==
    LET user == authenticate_user(db, username, password) IN
    IF Falsy(user)
    THEN ExceptionResponse(invalid_credentials_exception)
    ELSE JSONResponse(
            [access_token |-> create_access_token([sub |-> user.username],
                                                  <<>>, clock),
             token_type |-> "bearer"])

\* an endpoint declared with Depends(get_current_active_user): the
\* dependencies run first, the handler only when none of them raised
\* mutant: the active check uses the account status recorded when the
\* token was issued, not the one in the directory
ProtectedRequest_status_at_issuance(endpoint, token, db, clock) ==
    LET current_user == get_current_user(token, db, clock) IN
    IF current_user.raised
    THEN [op |-> endpoint, token |-> token, current_user |-> current_user,
          handler_ran |-> FALSE,
          response |-> ExceptionResponse(current_user.exc)]
    ELSE LET active == IF token \in issued_active
                       THEN Return(current_user.value)
                       ELSE get_current_active_user(current_user.value) IN
         IF active.raised
         THEN [op |-> endpoint, token |-> token, current_user |-> current_user,
               handler_ran |-> FALSE,
               response |-> ExceptionResponse(active.exc)]
         ELSE [op |-> endpoint, token |-> token, current_user |-> current_user,
               handler_ran |-> TRUE,
               response |-> JSONResponse(
                    IF endpoint = "read_users_me"
                    THEN active.value
                    ELSE <<[item_id |-> "Foo",
                            owner |-> active.value.username]>>)]

ProtectedRequest(endpoint, token, db, clock) ==
    LET current_user == get_current_user(token, db, clock) IN
    IF current_user.raised
    THEN [op |-> endpoint, token |-> token, current_user |-> current_user,
          handler_ran |-> FALSE,
          response |-> ExceptionResponse(current_user.exc)]
    ELSE LET active == get_current_active_user(current_user.value) IN
         IF active.raised
         THEN [op |-> endpoint, token |-> token, current_user |-> current_user,
               handler_ran |-> FALSE,
               response |-> ExceptionResponse(active.exc)]
         ELSE [op |-> endpoint, token |-> token, current_user |-> current_user,
               handler_ran |-> TRUE,
               response |-> JSONResponse(
                    IF endpoint = "read_users_me"
                    THEN active.value
                    ELSE <<[item_id |-> "Foo",
                            owner |-> active.value.username]>>)]

\* GET /users/me of the simple OAuth2 lesson
ProtectedRequestSimple(token) ==
    LET current_user == get_current_user_simple(token) IN
    IF current_user.raised
    THEN [op |-> "read_users_me_simple", token |-> token,
          current_user |-> current_user, handler_ran |-> FALSE,
          response |-> ExceptionResponse(current_user.exc)]
    ELSE LET active == get_current_active_user_simple(current_user.value) IN
         IF active.raised
         THEN [op |-> "read_users_me_simple", token |-> token,
               current_user |-> current_user, handler_ran |-> FALSE,
               response |-> ExceptionResponse(active.exc)]
         ELSE [op |-> "read_users_me_simple", token |-> token,
               current_user |-> current_user, handler_ran |-> TRUE,
               response |-> JSONResponse(
                    [username |-> active.value.username,
                     disabled |-> active.value.disabled])]


-----------------------------------------------------------------------------
(* What a client can present *)

EmptyDict == [k \in {} |-> ""]

TimeDeltas == {<<>>, <<0>>, <<1>>}

\* an issued token with its claims or signature altered
Tampered(t) ==
    {[t EXCEPT !.payload = dict_update(t.payload, "sub", u)] :
        u \in {v \in Usernames : "sub" \notin DOMAIN t.payload
                                  \/ v # t.payload.sub}}
    \cup {[t EXCEPT !.payload = dict_update(t.payload, "exp",
                                 t.payload.exp + ACCESS_TOKEN_EXPIRE_MINUTES)]}
    \cup {[t EXCEPT !.signature = sign(t.header, t.payload, ATTACKER_KEY)]}
    \cup {[t EXCEPT !.header = [alg |-> "none"], !.signature = <<>>]}

\* tokens made without SECRET_KEY
Forged(clock) ==
    {jwt_encode([sub |-> u, exp |-> clock + ACCESS_TOKEN_EXPIRE_MINUTES],
                ATTACKER_KEY, ALGORITHM) : u \in {"johndoe"}}

Presentable ==
    issued \cup {Malformed} \cup Forged(now)
    \cup ((UNION {Tampered(t) : t \in issued}) \ issued)

-----------------------------------------------------------------------------
(* Initial state *)

\* src/app/routers/items.py: the dict the module binds fake_items_db to
initial_fake_items_db ==
    [i \in {"plumbus", "gun"} |->
        IF i = "plumbus" THEN [name |-> "Plumbus"] ELSE [name |-> "Portal Gun"]]

Init ==
    /\ now = 0
    /\ fake_users_db = initial_fake_users_db
    /\ issued = {}
    /\ issued_active = {}
    /\ last = [op |-> "start"]
    /\ hashes = <<>>
    /\ fake_items_db = initial_fake_items_db
    /\ items_db = <<>>
    /\ next_id = 1
    /\ sessions = <<>>
    /\ requests = <<>>
    /\ inflight = {}

-----------------------------------------------------------------------------
(* Calls and requests of the JWT lesson *)

CallCreateAccessToken(data, expires_delta) ==
    LET token == create_access_token(data, expires_delta, now) IN
    /\ Cardinality(issued \cup {token}) <= MaxIssued
    /\ issued' = issued \cup {token}
    /\ last' = [op |-> "create_access_token", data |-> data,
                expires_delta |-> expires_delta, ret |-> token]
    /\ UNCHANGED <<now, fake_users_db, issued_active>>
    /\ UNCHANGED <<hash_state, items_state, yield_state, inflight_state>>

PostToken(username, password) ==
    LET response == login_for_access_token(username, password,
                                           fake_users_db, now) IN
    /\ response.status_code = 200 =>
            Cardinality(issued \cup {response.body.access_token}) <= MaxIssued
    /\ issued' = IF response.status_code = 200
                 THEN issued \cup {response.body.access_token}
                 ELSE issued
    /\ last' = [op |-> "login_for_access_token", username |-> username,
                password |-> password,
                user |-> authenticate_user(fake_users_db, username, password),
                steps |-> authenticate_user_steps(fake_users_db, username,
                                                  password),
                response |-> response]
    /\ issued_active' =
          IF response.status_code = 200
             /\ ~fake_users_db[username].disabled
          THEN issued_active \cup {response.body.access_token}
          ELSE issued_active
    /\ UNCHANGED <<now, fake_users_db>>
    /\ UNCHANGED <<hash_state, items_state, yield_state, inflight_state>>

\* mutant: resolving a token locks the account it names
GetProtected_locking(endpoint, token) ==
    LET result == ProtectedRequest(endpoint, token, fake_users_db, now) IN
    /\ last' = result
    /\ fake_users_db' =
          IF result.current_user.raised
          THEN fake_users_db
          ELSE [fake_users_db EXCEPT
                   ![result.current_user.value.username].disabled = TRUE]
    /\ UNCHANGED <<now, issued, issued_active>>
    /\ UNCHANGED <<hash_state, items_state, yield_state, inflight_state>>

GetProtected(endpoint, token) ==
    /\ last' = ProtectedRequest(endpoint, token, fake_users_db, now)
    /\ UNCHANGED <<now, fake_users_db, issued, issued_active>>
    /\ UNCHANGED <<hash_state, items_state, yield_state, inflight_state>>

-----------------------------------------------------------------------------
(* Requests of the simple OAuth2 lesson *)

PostTokenSimple(username, password) ==
    /\ last' = [op |-> "login", username |-> username, password |-> password,
                response |-> login(username, password)]
    /\ UNCHANGED <<now, fake_users_db, issued, issued_active>>
    /\ UNCHANGED <<hash_state, items_state, yield_state, inflight_state>>

GetUsersMeSimple(token) ==
    /\ last' = ProtectedRequestSimple(token)
    /\ UNCHANGED <<now, fake_users_db, issued, issued_active>>
    /\ UNCHANGED <<hash_state, items_state, yield_state, inflight_state>>

-----------------------------------------------------------------------------
(* The environment: the clock and the administration of the directory *)

Tick(d) ==
    /\ ((now + d) \div ACCESS_TOKEN_EXPIRE_MINUTES)
         + ((now + d) % ACCESS_TOKEN_EXPIRE_MINUTES) <= MaxTicks
    /\ now' = now + d
    /\ last' = [op |-> "tick"]
    /\ UNCHANGED <<fake_users_db, issued, issued_active>>
    /\ UNCHANGED <<hash_state, items_state, yield_state, inflight_state>>

AdminRegister(username, password, salt) ==
    /\ username \notin DOMAIN fake_users_db
    /\ fake_users_db' =
          [u \in DOMAIN fake_users_db \cup {username} |->
              IF u = username
              THEN UserInDB(username, hashpw(password, salt), FALSE)
              ELSE fake_users_db[u]]
    /\ last' = [op |-> "admin"]
    /\ UNCHANGED <<now, issued, issued_active>>
    /\ UNCHANGED <<hash_state, items_state, yield_state, inflight_state>>

AdminDelete(username) ==
    /\ username \in DOMAIN fake_users_db
    /\ fake_users_db' =
          [u \in DOMAIN fake_users_db \ {username} |-> fake_users_db[u]]
    /\ last' = [op |-> "admin"]
    /\ UNCHANGED <<now, issued, issued_active>>
    /\ UNCHANGED <<hash_state, items_state, yield_state, inflight_state>>

AdminSetDisabled(username, disabled) ==
    /\ username \in DOMAIN fake_users_db
    /\ fake_users_db[username].disabled # disabled
    /\ fake_users_db' =
          [fake_users_db EXCEPT ![username].disabled = disabled]
    /\ last' = [op |-> "admin"]
    /\ UNCHANGED <<now, issued, issued_active>>
    /\ UNCHANGED <<hash_state, items_state, yield_state, inflight_state>>

-----------------------------------------------------------------------------

Next ==
    \/ \E d \in {[sub |-> "johndoe"], EmptyDict},
          e \in TimeDeltas : CallCreateAccessToken(d, e)
    \/ \E u \in Usernames, p \in Passwords : PostToken(u, p)
    \/ \E e \in {"read_users_me", "read_own_items"}, t \in Presentable :
          GetProtected(e, t)
    \/ \E u \in Usernames \cup {"ghost"}, p \in Passwords :
          PostTokenSimple(u, p)
    \/ \E t \in Usernames \cup {"ghost"} : GetUsersMeSimple(t)
    \/ \E d \in {1, ACCESS_TOKEN_EXPIRE_MINUTES} : Tick(d)
    \/ AdminRegister("alice", "secret2", "s2")
    \/ AdminRegister("johndoe", "secret", "EixZaYVK")
    \/ \E u \in Usernames : AdminDelete(u)
    \/ \E u \in Usernames, b \in BOOLEAN : AdminSetDisabled(u, b)

Spec == Init /\ [][Next]_vars


-----------------------------------------------------------------------------
(* Dependencies: the global-dependencies lesson (25), the dependencies in  *)
(* decorators lesson (23) and the bigger-applications app (app/).          *)
(* A query or header parameter of a request is a sequence: <<>> when the   *)
(* request does not carry it, <<v>> when it carries the value v.           *)

\* src/25globaldependences.py
verify_token(x_token) ==
    IF x_token # "fake-super-secret-token"
    THEN Raise(HTTPException(400, "Invalid X-Token header", {}))
    ELSE Return(None)

verify_key(x_key) ==
    IF x_key # "fake-super-secret-key"
    THEN Raise(HTTPException(400, "Invalid X-Key header", {}))
    ELSE Return(x_key)

\* src/23dependency-subdependencies.py
verify_token_23(x_token) ==
    IF x_token # "fake-super-secret-token"
    THEN Raise(HTTPException(400, "X-Token header invalid", {}))
    ELSE Return(None)

\* mutant: supplies a masked key
verify_key_23_masked(x_key) ==
    IF x_key # "fake-super-secret-key"
    THEN Raise(HTTPException(400, "X-Key header invalid", {}))
    ELSE Return("****")

verify_key_23(x_key) ==
    IF x_key # "fake-super-secret-key"
    THEN Raise(HTTPException(400, "X-Key header invalid", {}))
    ELSE Return(x_key)

\* src/app/dependencies.py
get_token_header(x_token) ==
    IF x_token # "fake-super-secret-token"
    THEN Raise(HTTPException(400, "X-Token header invalid", {}))
    ELSE Return(None)

get_query_token(token) ==
    IF token # "jessica"
    THEN Raise(HTTPException(400, "No Jessica token provided", {}))
    ELSE Return(None)

\* the required parameter a dependency declares
Param(call) ==
    CASE call = "get_query_token" -> "token"
      [] call \in {"verify_token", "verify_token_23", "get_token_header"}
            -> "x_token"
      [] call \in {"verify_key", "verify_key_23"} -> "x_key"

Invoke(call, value) ==
    CASE call = "get_query_token" -> get_query_token(value)
      [] call = "get_token_header" -> get_token_header(value)
      [] call = "verify_token" -> verify_token(value)
      [] call = "verify_key" -> verify_key(value)
      [] call = "verify_token_23" -> verify_token_23(value)
      [] call = "verify_key_23" -> verify_key_23(value)

\* mutant: the key is checked before the token
app_dependencies_key_first(app) ==
    CASE app = "global_dependencies" -> <<"verify_key", "verify_token">>
      [] app = "bigger_applications" -> <<"get_query_token">>
      [] OTHER -> <<>>

\* mutant: the application declares no dependencies
app_dependencies_omitted(app) == <<>>

\* FastAPI(dependencies=[...])
app_dependencies(app) ==
    CASE app = "global_dependencies" -> <<"verify_token", "verify_key">>
      [] app = "bigger_applications" -> <<"get_query_token">>
      [] OTHER -> <<>>

\* app.include_router(router, dependencies=[...])
include_router_dependencies(router) ==
    CASE router = "admin" -> <<"get_token_header">>
      [] OTHER -> <<>>

\* APIRouter(dependencies=[...])
router_dependencies(router) ==
    CASE router = "items" -> <<"get_token_header">>
      [] OTHER -> <<>>

Route(app, router, endpoint, dependencies, path_params) ==
    [app |-> app, router |-> router, endpoint |-> endpoint,
     dependencies |-> dependencies, path_params |-> path_params]

ItemIds == {"plumbus", "gun", "portal"}

Routes25 ==
    {Route("global_dependencies", "", e, <<>>, {""}) :
        e \in {"read_items", "read_users"}}

ReadItems23 ==
    Route("dependencies_in_decorators", "", "read_items",
          <<"verify_token_23", "verify_key_23">>, {""})

Routes23 == {ReadItems23}

\* the test_endpoint of verify_key's documentation, which takes the value
\* of verify_key as its parameter key
RoutesKeyInjection ==
    {Route("test_key_injection", "", "test_endpoint",
           <<"verify_key_23">>, {""})}

RoutesBigger ==
    {Route("bigger_applications", "", "root", <<>>, {""}),
     Route("bigger_applications", "users", "read_users", <<>>, {""}),
     Route("bigger_applications", "users", "read_user_me", <<>>, {""}),
     Route("bigger_applications", "users", "read_user", <<>>, {"rick"}),
     Route("bigger_applications", "items", "read_items", <<>>, {""}),
     Route("bigger_applications", "items", "read_item", <<>>, ItemIds),
     Route("bigger_applications", "items", "update_item", <<>>, ItemIds),
     Route("bigger_applications", "admin", "update_admin", <<>>, {""})}

\* mutant: the checks of the group run before those of the application
RouteDependencies_group_first(route) ==
    include_router_dependencies(route.router)
    \o router_dependencies(route.router)
    \o app_dependencies(route.app)
    \o route.dependencies

\* the checks of a route, in the order FastAPI runs them: those of the
\* application, of include_router, of the router, of the decorator
RouteDependencies(route) ==
    app_dependencies(route.app)
    \o include_router_dependencies(route.router)
    \o router_dependencies(route.router)
    \o route.dependencies

\* src/app/routers/items.py

read_item(item_id) ==
    IF item_id \notin DOMAIN fake_items_db
    THEN Raise(HTTPException(404, "Item not found", {}))
    ELSE Return([name |-> fake_items_db[item_id].name, item_id |-> item_id])

\* mutant: looks the item up before it applies its rule
update_item_looks_up(item_id) ==
    IF item_id \notin DOMAIN fake_items_db
    THEN Raise(HTTPException(404, "Item not found", {}))
    ELSE IF item_id # "plumbus"
    THEN Raise(HTTPException(403, "You can only update the item: plumbus", {}))
    ELSE Return([item_id |-> item_id, name |-> "The great Plumbus"])

update_item(item_id) ==
    IF item_id # "plumbus"
    THEN Raise(HTTPException(403, "You can only update the item: plumbus", {}))
    ELSE Return([item_id |-> item_id, name |-> "The great Plumbus"])

\* mutant: stores the new name in the item it answers for
update_item_assigns_writing(item_id) ==
    IF item_id = "plumbus"
    THEN [fake_items_db EXCEPT ![item_id] = [name |-> "The great Plumbus"]]
    ELSE fake_items_db

\* fake_items_db once update_item(item_id) has run: the function has no
\* assignment to it, neither before the raise nor before the return
update_item_assigns(item_id) == fake_items_db

\* the endpoint function of a route; values are what its dependencies
\* returned, in the order they were called
Endpoint(route, path_param, values) ==
    CASE route.endpoint = "read_item" -> read_item(path_param)
      [] route.endpoint = "update_item" -> update_item(path_param)
      [] route.endpoint = "read_user" -> Return([username |-> path_param])
      [] route.endpoint = "read_user_me"
            -> Return([username |-> "fakecurrentuser"])
      [] route.endpoint = "read_users"
            -> Return(<<[username |-> "Rick"], [username |-> "Morty"]>>)
      [] route.endpoint = "read_items" /\ route.router = "items"
            -> Return(fake_items_db)
      [] route.endpoint = "read_items"
            /\ route.app = "global_dependencies"
            -> Return(<<[item |-> "Portal Gun"], [item |-> "Plumbus"]>>)
      [] route.endpoint = "read_items"
            /\ route.app = "dependencies_in_decorators"
            -> Return(<<[item |-> "Foo"], [item |-> "Bar"]>>)
      [] route.endpoint = "test_endpoint"
            -> Return([injected_key |-> values[Len(values)]])
      [] route.endpoint = "root"
            -> Return([message |-> "Hello Bigger Applications!"])
      [] route.endpoint = "update_admin"
            -> Return([message |-> "Admin getting schwifty"])

NothingSolved ==
    [calls |-> <<>>, values |-> <<>>, errors |-> <<>>, exc |-> <<>>]

\* fastapi solve_dependencies: the dependencies are solved in order; one
\* whose required parameter is missing is not called, its validation error
\* is collected and the next one is solved; one that raises ends the request
RECURSIVE solve_dependencies(_, _, _)
solve_dependencies(dependencies, request, solved) ==
    IF dependencies = <<>>
    THEN solved
    ELSE LET call == Head(dependencies)
             arg == request[Param(call)]
         IN  IF arg = <<>>
             THEN solve_dependencies(Tail(dependencies), request,
                     [solved EXCEPT !.errors =
                         Append(@, [type |-> "missing", loc |-> Param(call)])])
             ELSE LET result == Invoke(call, arg[1]) IN
                  IF result.raised
                  THEN [solved EXCEPT !.calls = Append(@, call),
                                      !.exc = <<result.exc>>]
                  ELSE solve_dependencies(Tail(dependencies), request,
                          [solved EXCEPT !.calls = Append(@, call),
                                         !.values = Append(@, result.value)])

\* fastapi request handler: the endpoint function runs only when no
\* dependency raised and no validation error was collected
HandleRequest(route, request) ==
    LET solved == solve_dependencies(RouteDependencies(route), request,
                                     NothingSolved)
        seen == [op |-> "request", route |-> route, request |-> request,
                 calls |-> solved.calls, values |-> solved.values]
    IN  IF solved.exc # <<>>
        THEN seen @@
             [handler_ran |-> FALSE,
              response |-> ExceptionResponse(solved.exc[1])]
        ELSE IF solved.errors # <<>>
        THEN seen @@
             [handler_ran |-> FALSE,
              response |-> [status_code |-> 422,
                            body |-> [detail |-> solved.errors],
                            headers |-> {}]]
        ELSE LET result == Endpoint(route, request.path_param,
                                    solved.values) IN
             seen @@
             [handler_ran |-> TRUE,
              response |-> IF result.raised
                           THEN ExceptionResponse(result.exc)
                           ELSE JSONResponse(result.value)]

\* what a client can send
OptionalValues(valid) == {<<>>, <<valid>>, <<"wrong">>}

Requests(route) ==
    [token : OptionalValues("jessica"),
     x_token : OptionalValues("fake-super-secret-token"),
     x_key : OptionalValues("fake-super-secret-key"),
     path_param : route.path_params]

RequestGlobalDependencies(route, request) ==
    /\ last' = HandleRequest(route, request)
    /\ UNCHANGED <<now, fake_users_db, issued, issued_active>>
    /\ UNCHANGED <<hash_state, items_state, yield_state, inflight_state>>

RequestDependenciesInDecorators(route, request) ==
    /\ last' = HandleRequest(route, request)
    /\ UNCHANGED <<now, fake_users_db, issued, issued_active>>
    /\ UNCHANGED <<hash_state, items_state, yield_state, inflight_state>>

RequestKeyInjection(route, request) ==
    /\ last' = HandleRequest(route, request)
    /\ UNCHANGED <<now, fake_users_db, issued, issued_active>>
    /\ UNCHANGED <<hash_state, items_state, yield_state, inflight_state>>

RequestBiggerApplications(route, request) ==
    /\ last' = HandleRequest(route, request)
    /\ fake_items_db' =
          IF HandleRequest(route, request).handler_ran
             /\ route.endpoint = "update_item"
          THEN update_item_assigns(request.path_param)
          ELSE fake_items_db
    /\ UNCHANGED <<now, fake_users_db, issued, issued_active>>
    /\ UNCHANGED <<hash_state, yield_state, inflight_state>>

\* src/28securitygetcurrentuser.py: OAuth2PasswordBearer answers 401 itself
\* when the request carries no Authorization: Bearer header
oauth2_scheme(authorization) ==
    IF authorization = <<>>
    THEN Raise(HTTPException(HTTP_401_UNAUTHORIZED, "Not authenticated",
                             WWW_Authenticate_Bearer))
    ELSE Return(authorization[1])

fake_decode_token_28(token) ==
    [username |-> token \o "fakedecoded", email |-> "john@example.com",
     full_name |-> "John Doe", disabled |-> None]

get_current_user_28(token) == Return(fake_decode_token_28(token))

\* GET /users/me of the get-current-user lesson
read_users_me_28(authorization) ==
    LET token == oauth2_scheme(authorization) IN
    IF token.raised
    THEN [op |-> "read_users_me_28", authorization |-> authorization,
          handler_ran |-> FALSE, response |-> ExceptionResponse(token.exc)]
    ELSE [op |-> "read_users_me_28", authorization |-> authorization,
          handler_ran |-> TRUE,
          response |-> JSONResponse(get_current_user_28(token.value).value)]

BearerTokens == {"mytoken123", "invalid-token"}

RequestGetCurrentUser(authorization) ==
    /\ last' = read_users_me_28(authorization)
    /\ UNCHANGED <<now, fake_users_db, issued, issued_active>>
    /\ UNCHANGED <<hash_state, items_state, yield_state, inflight_state>>

NextDeps ==
    \/ \E route \in Routes25 : \E request \in Requests(route) :
          RequestGlobalDependencies(route, request)
    \/ \E route \in Routes23 : \E request \in Requests(route) :
          RequestDependenciesInDecorators(route, request)
    \/ \E route \in RoutesKeyInjection : \E request \in Requests(route) :
          RequestKeyInjection(route, request)
    \/ \E route \in RoutesBigger : \E request \in Requests(route) :
          RequestBiggerApplications(route, request)
    \/ \E authorization \in {<<>>} \cup {<<t>> : t \in BearerTokens} :
          RequestGetCurrentUser(authorization)

SpecDeps == Init /\ [][NextDeps]_vars

-----------------------------------------------------------------------------
(* Password hashing of the JWT lesson, with the inputs bcrypt refuses.     *)
(* bcrypt.gensalt() draws 16 random bytes; two draws are taken never to    *)
(* coincide, so gensalt returns a salt no earlier call has returned.       *)
(* Passwords are short of the 72 bytes bcrypt reads.                       *)

Salts == {"salt1", "salt2", "salt3"}

\* hashed_password values that are not of the form $2b$<cost>$<salt><digest>
MalformedHashes == {[text |-> "not-a-hash"], [text |-> ""]}

WellFormed(hashed_password) == "salt" \in DOMAIN hashed_password

\* bcrypt.checkpw: ValueError("Invalid salt") for a string that is no hash
bcrypt_checkpw(password, hashed_password) ==
    IF ~WellFormed(hashed_password)
    THEN Raise("ValueError")
    ELSE Return(checkpw(password, hashed_password))

\* verify_password on every stored value: None has no encode method
verify_password_call(plain_password, hashed_password) ==
    IF hashed_password = None
    THEN Raise("AttributeError")
    ELSE bcrypt_checkpw(plain_password, hashed_password)

\* mutant: the salt is a constant of the module
get_password_hash_fixed_salt(password, salt) == hashpw(password, "salt1")

\* get_password_hash, salt being what bcrypt.gensalt() returned
get_password_hash(password, salt) == hashpw(password, salt)

\* authenticate_user: an exception of verify_password is not caught
authenticate_user_call(fake_db, username, password) ==
    LET user == get_user(fake_db, username) IN
    IF user = None
    THEN Return(False)
    ELSE LET verified == verify_password_call(password, user.hashed_password)
         IN  IF verified.raised
             THEN verified
             ELSE Return(IF verified.value THEN user ELSE False)

\* the response to an exception no handler catches
InternalServerError ==
    [status_code |-> 500, body |-> "Internal Server Error", headers |-> {}]

\* POST /token: an exception of authenticate_user is not caught either
login_for_access_token_call(username, password, db, clock) ==
    IF authenticate_user_call(db, username, password).raised
    THEN InternalServerError
    ELSE login_for_access_token(username, password, db, clock)

\* the salts gensalt has returned
UsedSalts == {hashes[i].ret.salt : i \in DOMAIN hashes}

\* a directory whose only account stores the given hashed_password
DirectoryStoring(hashed_password) ==
    [u \in {"johndoe"} |-> UserInDB("johndoe", hashed_password, FALSE)]

StoredValues ==
    {hashes[i].ret : i \in DOMAIN hashes} \cup MalformedHashes \cup {None}

CallGetPasswordHash(password) ==
    /\ Len(hashes) < MaxHashes
    /\ \E salt \in Salts \ UsedSalts :
          LET ret == get_password_hash(password, salt) IN
          /\ hashes' = Append(hashes, [password |-> password, ret |-> ret])
          /\ last' = [op |-> "get_password_hash", password |-> password,
                      ret |-> ret]
    /\ UNCHANGED <<jwt_state, items_state, yield_state, inflight_state>>

CallVerifyPassword(plain_password, hashed_password) ==
    /\ last' = [op |-> "verify_password",
                plain_password |-> plain_password,
                hashed_password |-> hashed_password,
                result |-> verify_password_call(plain_password,
                                                hashed_password)]
    /\ UNCHANGED <<jwt_state, hash_state, items_state, yield_state,
                   inflight_state>>

\* POST /token for johndoe when the directory stores hashed_password
PostTokenStoring(hashed_password, password) ==
    /\ last' = [op |-> "login_storing",
                hashed_password |-> hashed_password,
                password |-> password,
                user |-> authenticate_user_call(
                            DirectoryStoring(hashed_password),
                            "johndoe", password),
                response |-> login_for_access_token_call(
                                "johndoe", password,
                                DirectoryStoring(hashed_password), now)]
    /\ UNCHANGED <<jwt_state, hash_state, items_state, yield_state,
                   inflight_state>>

NextHash ==
    \/ \E password \in Passwords : CallGetPasswordHash(password)
    \/ \E plain_password \in Passwords, hashed_password \in StoredValues :
          CallVerifyPassword(plain_password, hashed_password)
    \/ \E hashed_password \in StoredValues, password \in Passwords :
          PostTokenStoring(hashed_password, password)

SpecHash == Init /\ [][NextHash]_vars

-----------------------------------------------------------------------------
(* The dependencies-with-yield lesson (src/26dependencieswithyield.py).    *)
(* A request is handled in three steps between which other requests run:   *)
(* get_db up to its yield, the endpoint function (a coroutine without an   *)
(* await, so it runs without interruption), get_db from its yield on. A    *)
(* request whose body is not an Item passes get_db's yield like the        *)
(* others, then fails validation: the endpoint function is not called and  *)
(* the error is thrown into get_db at its yield. closes counts the calls   *)
(* of DBSession.close.                                                     *)

\* DBSession.__init__
DBSession == [connected |-> TRUE, transaction_count |-> 0, closes |-> 0]

\* DBSession.close
close(db) == [db EXCEPT !.connected = FALSE, !.closes = @ + 1]

\* mutant: db.close() follows the yield without try/finally
get_db_after_yield_no_finally(db, exc) == IF exc THEN db ELSE close(db)

\* get_db from its yield on; exc says an exception was thrown in at the yield
get_db_after_yield(db, exc) == close(db)

\* request bodies: an Item, and one without its price
ItemBodies == {[name |-> "Portal Gun", price |-> 42], [name |-> "Plumbus"]}

IsItem(body) == DOMAIN body = {"name", "price"}

\* mutant: the counter is not advanced
create_item_no_increment(item, items, id) ==
    [items_db |-> (id :> item) @@ items,
     next_id |-> id,
     ret |-> [id |-> id, name |-> item.name, price |-> item.price]]

\* create_item: the items and the counter it leaves, and what it returns
create_item(item, items, id) ==
    [items_db |-> (id :> item) @@ items,
     next_id |-> id + 1,
     ret |-> [id |-> id, name |-> item.name, price |-> item.price]]

\* a request arrives and get_db runs up to its yield
ReceiveRequest(endpoint, body) ==
    /\ Len(requests) < MaxRequests
    /\ sessions' = Append(sessions, DBSession)
    /\ requests' = Append(requests,
                      [endpoint |-> endpoint, body |-> body,
                       pc |-> "yielded", db |-> Len(sessions) + 1,
                       handler_ran |-> FALSE,
                       connected_in_handler |-> FALSE,
                       response |-> None])
    /\ UNCHANGED <<items_db, next_id>>
    /\ UNCHANGED <<jwt_state, last, hash_state, items_state, inflight_state>>

\* the endpoint function runs
RunEndpoint(r) ==
    /\ requests[r].pc = "yielded"
    /\ requests[r].endpoint = "create_item" => IsItem(requests[r].body)
    /\ LET created == create_item(requests[r].body, items_db, next_id)
           db == requests[r].db
       IN  /\ sessions' = [sessions EXCEPT ![db].transaction_count = @ + 1]
           /\ items_db' = IF requests[r].endpoint = "create_item"
                          THEN created.items_db
                          ELSE items_db
           /\ next_id' = IF requests[r].endpoint = "create_item"
                         THEN created.next_id
                         ELSE next_id
           /\ requests' =
                [requests EXCEPT
                    ![r].pc = "returned",
                    ![r].handler_ran = TRUE,
                    ![r].connected_in_handler = sessions[db].connected,
                    ![r].response =
                        IF requests[r].endpoint = "create_item"
                        THEN JSONResponse(created.ret)
                        ELSE JSONResponse(items_db)]
    /\ UNCHANGED <<jwt_state, last, hash_state, items_state, inflight_state>>

\* the body is no Item: 422, the endpoint function is not called
FailValidation(r) ==
    /\ requests[r].pc = "yielded"
    /\ requests[r].endpoint = "create_item"
    /\ ~IsItem(requests[r].body)
    /\ requests' =
          [requests EXCEPT
              ![r].pc = "raised",
              ![r].response =
                  [status_code |-> 422,
                   body |-> [detail |-> <<[type |-> "missing",
                                          loc |-> "price"]>>],
                   headers |-> {}]]
    /\ UNCHANGED <<items_db, next_id, sessions>>
    /\ UNCHANGED <<jwt_state, last, hash_state, items_state, inflight_state>>

\* get_db resumes at its yield and runs to its end
ExitGetDb(r) ==
    /\ requests[r].pc \in {"returned", "raised"}
    /\ sessions' =
          [sessions EXCEPT
              ![requests[r].db] =
                  get_db_after_yield(@, requests[r].pc = "raised")]
    /\ requests' = [requests EXCEPT ![r].pc = "done"]
    /\ UNCHANGED <<items_db, next_id>>
    /\ UNCHANGED <<jwt_state, last, hash_state, items_state, inflight_state>>

NextYield ==
    \/ \E body \in ItemBodies : ReceiveRequest("create_item", body)
    \/ ReceiveRequest("get_items", None)
    \/ \E r \in DOMAIN requests : RunEndpoint(r)
    \/ \E r \in DOMAIN requests : FailValidation(r)
    \/ \E r \in DOMAIN requests : ExitGetDb(r)

SpecYield == Init /\ [][NextYield]_vars

-----------------------------------------------------------------------------
(* Requests of the JWT lesson handled concurrently. A request is a record  *)
(* of what it was sent and of the locals its functions hold; between the   *)
(* calls of its functions other requests run, the clock advances and the   *)
(* directory may be edited. db_read and clock_read note the directory and  *)
(* the clock the request read.                                             *)

\* mutant: the resolved account is kept in a module-level variable that
\* every request assigns
current_user_seen_shared(q) ==
    (CHOOSE o \in inflight : o.pc = "resolved").current_user

\* the current_user that get_current_active_user of request q is called with
current_user_seen(q) == q.current_user

Finish(q) == inflight \ {q}

ReceiveLogin(username, password) ==
    LET q == [kind |-> "login_for_access_token", username |-> username,
              password |-> password, pc |-> "received"] IN
    /\ Cardinality(inflight \cup {q}) <= MaxInflight
    /\ inflight' = inflight \cup {q}
    /\ last' = [op |-> "received"]
    /\ UNCHANGED <<jwt_state, hash_state, items_state, yield_state>>

ReceiveProtected(endpoint, token) ==
    LET q == [kind |-> endpoint, token |-> token, pc |-> "received"] IN
    /\ Cardinality(inflight \cup {q}) <= MaxInflight
    /\ inflight' = inflight \cup {q}
    /\ last' = [op |-> "received"]
    /\ UNCHANGED <<jwt_state, hash_state, items_state, yield_state>>

\* login_for_access_token up to the return of authenticate_user
StepAuthenticateUser(q) ==
    /\ q.kind = "login_for_access_token"
    /\ q.pc = "received"
    /\ inflight' = Finish(q) \cup
          {[kind |-> q.kind, username |-> q.username,
            password |-> q.password, pc |-> "authenticated",
            user |-> authenticate_user(fake_users_db, q.username,
                                       q.password),
            db_read |-> fake_users_db]}
    /\ last' = [op |-> "step"]
    /\ UNCHANGED <<jwt_state, hash_state, items_state, yield_state>>

\* the rest of login_for_access_token
StepCreateAccessToken(q) ==
    /\ q.kind = "login_for_access_token"
    /\ q.pc = "authenticated"
    /\ LET response ==
              IF Falsy(q.user)
              THEN ExceptionResponse(invalid_credentials_exception)
              ELSE JSONResponse(
                      [access_token |->
                          create_access_token([sub |-> q.user.username],
                                              <<>>, now),
                       token_type |-> "bearer"])
       IN  /\ response.status_code = 200 =>
                Cardinality(issued \cup {response.body.access_token})
                   <= MaxIssued
           /\ issued' = IF response.status_code = 200
                        THEN issued \cup {response.body.access_token}
                        ELSE issued
           /\ last' = [op |-> "finished", request |-> q,
                       db_read |-> q.db_read, clock_read |-> now,
                       response |-> response]
    /\ inflight' = Finish(q)
    /\ UNCHANGED <<now, fake_users_db, issued_active>>
    /\ UNCHANGED <<hash_state, items_state, yield_state>>

\* the dependency get_current_user of a guarded endpoint
StepGetCurrentUser(q) ==
    /\ q.kind \in {"read_users_me", "read_own_items"}
    /\ q.pc = "received"
    /\ inflight' = Finish(q) \cup
          {[kind |-> q.kind, token |-> q.token, pc |-> "resolved",
            current_user |-> get_current_user(q.token, fake_users_db, now),
            db_read |-> fake_users_db, clock_read |-> now]}
    /\ last' = [op |-> "step"]
    /\ UNCHANGED <<jwt_state, hash_state, items_state, yield_state>>

\* the dependency get_current_active_user and the endpoint function
StepGetCurrentActiveUser(q) ==
    /\ q.kind \in {"read_users_me", "read_own_items"}
    /\ q.pc = "resolved"
    /\ LET current_user == current_user_seen(q)
           active == get_current_active_user(current_user.value)
           response ==
              IF current_user.raised
              THEN ExceptionResponse(current_user.exc)
              ELSE IF active.raised
              THEN ExceptionResponse(active.exc)
              ELSE JSONResponse(
                      IF q.kind = "read_users_me"
                      THEN active.value
                      ELSE <<[item_id |-> "Foo",
                              owner |-> active.value.username]>>)
       IN  last' = [op |-> "finished", request |-> q,
                    db_read |-> q.db_read, clock_read |-> q.clock_read,
                    response |-> response]
    /\ inflight' = Finish(q)
    /\ UNCHANGED <<jwt_state, hash_state, items_state, yield_state>>

NextInflight ==
    \/ \E u \in Usernames : ReceiveLogin(u, "secret")
    \/ \E t \in issued \cup {Malformed} : ReceiveProtected("read_users_me", t)
    \/ \E q \in inflight : StepAuthenticateUser(q)
    \/ \E q \in inflight : StepCreateAccessToken(q)
    \/ \E q \in inflight : StepGetCurrentUser(q)
    \/ \E q \in inflight : StepGetCurrentActiveUser(q)
    \/ \E d \in {1, ACCESS_TOKEN_EXPIRE_MINUTES} : Tick(d)
    \/ \E b \in BOOLEAN : AdminSetDisabled("johndoe", b)

SpecInflight == Init /\ [][NextInflight]_vars

-----------------------------------------------------------------------------
(* Vocabulary of the properties *)

ProtectedOps == {"read_users_me", "read_own_items"}

\* a name no directory holds
Ghost == "ghost"

\* the password an account of the JWT lesson was registered with
RegisteredPassword(username) ==
    fake_users_db[username].hashed_password.digest[2]

\* the last request presented an issued token that carries a subject and
\* has not reached its expiry
LastTokenIssuedAndFresh ==
    /\ last.op \in ProtectedOps
    /\ last.token \in issued
    /\ "sub" \in DOMAIN last.token.payload
    /\ now < last.token.payload.exp

-----------------------------------------------------------------------------
(* C1: a login with a wrong password for an existing name fails exactly as  *)
(* a login with a name the directory does not hold: same return value of   *)
(* authenticate_user, same status, detail and headers of POST /token, in   *)
(* the JWT lesson and in the simple OAuth2 lesson.                         *)
C1_UniformLoginFailure ==
    /\ (/\ last.op = "login_for_access_token"
        /\ last.username \in DOMAIN fake_users_db
        /\ last.password # RegisteredPassword(last.username))
       => /\ last.user = authenticate_user(fake_users_db, Ghost, last.password)
          /\ last.response = login_for_access_token(Ghost, last.password,
                                                    fake_users_db, now)
          /\ last.response.status_code = HTTP_401_UNAUTHORIZED
    /\ (/\ last.op = "login"
        /\ last.username \in DOMAIN fake_users_db_simple
        /\ fake_hash_password(last.password)
              # fake_users_db_simple[last.username].hashed_password)
       => /\ last.response = login(Ghost, last.password)
          /\ last.response.status_code = HTTP_401_UNAUTHORIZED

C1_Witness ==
    /\ last.op = "login_for_access_token"
    /\ last.username \in DOMAIN fake_users_db
    /\ last.password # RegisteredPassword(last.username)
    /\ last.user = False
    /\ last.response.status_code = HTTP_401_UNAUTHORIZED

(* C2: whatever check of get_current_user fails (undecodable token, wrong  *)
(* algorithm or signature, expired token, no sub claim, subject not in the *)
(* directory), the client gets one and the same response, the one an       *)
(* undecodable token gets: 401, same detail, same headers.                 *)
C2_OneTokenFailure ==
    (last.op \in ProtectedOps /\ last.current_user.raised)
    => /\ last.current_user = get_current_user(Malformed, fake_users_db, now)
       /\ last.response
            = ProtectedRequest(last.op, Malformed, fake_users_db, now).response
       /\ last.response.status_code = HTTP_401_UNAUTHORIZED

C2_Witness ==
    /\ LastTokenIssuedAndFresh
    /\ last.token.payload.sub \notin DOMAIN fake_users_db
    /\ last.current_user.raised
    /\ last.response.status_code = HTTP_401_UNAUTHORIZED

(* C3: an issued token presented at a clock time later than its expiry is  *)
(* rejected with the 401 of a token failure, and no handler runs.          *)
C3_ExpiredNeverAccepted ==
    (/\ last.op \in ProtectedOps
     /\ last.token \in issued
     /\ now > last.token.payload.exp)
    => /\ last.current_user.raised
       /\ last.current_user.exc.status_code = HTTP_401_UNAUTHORIZED
       /\ ~last.handler_ran

C3_Witness ==
    /\ last.op \in ProtectedOps
    /\ last.token \in issued
    /\ now > last.token.payload.exp
    /\ "sub" \in DOMAIN last.token.payload
    /\ last.token.payload.sub \in DOMAIN fake_users_db
    /\ last.current_user.raised

(* C4: get_current_user returns an account only for a token that           *)
(* create_access_token issued, and then the account of that token's own    *)
(* subject; a token with altered subject, expiry or signature is rejected. *)
C4_OnlyIssuedTokensResolve ==
    (last.op \in ProtectedOps /\ ~last.current_user.raised)
    => /\ last.token \in issued
       /\ last.current_user.value.username = last.token.payload.sub

C4_Witness ==
    /\ last.op \in ProtectedOps
    /\ last.token \notin issued
    /\ last.token # Malformed
    /\ \E t \in issued :
          /\ "sub" \in DOMAIN t.payload
          /\ t.payload.sub \in DOMAIN fake_users_db
          /\ now < t.payload.exp
          /\ last.token.signature = t.signature
          /\ last.token.payload # t.payload
    /\ last.current_user.raised

(* C5 (as claimed): the expiry of a token is the issue time plus the ttl   *)
(* passed as expires_delta, also for a zero ttl; the 30 minute default is  *)
(* used only when no ttl is passed.                                        *)
C5_ExpiryIsIssueTimePlusTtl ==
    last.op = "create_access_token"
    => last.ret.payload.exp
         = now + (IF last.expires_delta = <<>>
                  THEN ACCESS_TOKEN_EXPIRE_MINUTES
                  ELSE last.expires_delta[1])

(* C6: a request with an issued, unexpired token whose subject is not in   *)
(* the directory (the account was deleted after the token was issued) is   *)
(* answered 401: no account is returned and no handler runs.               *)
C6_DeletedAccountFails ==
    (/\ LastTokenIssuedAndFresh
     /\ last.token.payload.sub \notin DOMAIN fake_users_db)
    => /\ last.current_user.raised
       /\ last.response.status_code = HTTP_401_UNAUTHORIZED
       /\ ~last.handler_ran

\* Tokens naming alice are issued by POST /token only, that is while alice
\* is in the directory: here she has been deleted since.
C6_Witness ==
    /\ LastTokenIssuedAndFresh
    /\ last.token.payload.sub = "alice"
    /\ "alice" \notin DOMAIN fake_users_db
    /\ last.current_user.raised

(* C7: with a valid, unexpired token of an existing disabled account,      *)
(* get_current_user returns that account, get_current_active_user denies   *)
(* and the handler does not run; no handler of an endpoint that depends on *)
(* get_current_active_user runs for a disabled account (both lessons).     *)
C7_DisabledResolvesButIsDenied ==
    /\ (/\ LastTokenIssuedAndFresh
        /\ last.token.payload.sub \in DOMAIN fake_users_db
        /\ fake_users_db[last.token.payload.sub].disabled)
       => /\ last.current_user
               = Return(fake_users_db[last.token.payload.sub])
          /\ ~last.handler_ran
          /\ last.response = ExceptionResponse(inactive_user_exception)
    /\ (/\ last.op = "read_users_me_simple"
        /\ last.token \in DOMAIN fake_users_db_simple
        /\ fake_users_db_simple[last.token].disabled)
       => /\ last.current_user = Return(fake_users_db_simple[last.token])
          /\ ~last.handler_ran
    /\ (/\ last.op \in ProtectedOps \cup {"read_users_me_simple"}
        /\ last.handler_ran)
       => ~last.current_user.value.disabled

C7_Witness ==
    /\ LastTokenIssuedAndFresh
    /\ last.token.payload.sub \in DOMAIN fake_users_db
    /\ fake_users_db[last.token.payload.sub].disabled
    /\ ~last.current_user.raised
    /\ ~last.handler_ran

(* C8: the denial of an authenticated but inactive account has status 400, *)
(* every token failure and every credential failure has status 401, and    *)
(* the two differ.                                                         *)
C8_InactiveStatusIsDistinct ==
    LET inactive == ExceptionResponse(inactive_user_exception).status_code IN
    /\ (last.op \in ProtectedOps /\ last.current_user.raised)
       => /\ last.response.status_code = HTTP_401_UNAUTHORIZED
          /\ last.response.status_code # inactive
    /\ (last.op = "login_for_access_token" /\ Falsy(last.user))
       => /\ last.response.status_code = HTTP_401_UNAUTHORIZED
          /\ last.response.status_code # inactive
    /\ (/\ last.op \in ProtectedOps
        /\ ~last.current_user.raised
        /\ ~last.handler_ran)
       => /\ last.response.status_code = HTTP_400_BAD_REQUEST
          /\ last.response.status_code = inactive

C8_Witness ==
    /\ last.op \in ProtectedOps
    /\ ~last.current_user.raised
    /\ last.current_user.value.disabled
    /\ last.response.status_code = HTTP_400_BAD_REQUEST

(* C9: authenticate_user returns the account of an existing name with its  *)
(* correct password whether or not the account is disabled.                *)
C9_AuthenticateIgnoresDisabled ==
    (/\ last.op = "login_for_access_token"
     /\ last.username \in DOMAIN fake_users_db
     /\ last.password = RegisteredPassword(last.username))
    => last.user = fake_users_db[last.username]

C9_Witness ==
    /\ last.op = "login_for_access_token"
    /\ last.username \in DOMAIN fake_users_db
    /\ last.password = RegisteredPassword(last.username)
    /\ fake_users_db[last.username].disabled
    /\ last.user = fake_users_db[last.username]
    /\ last.user.disabled

(* C10 (as claimed): in the simple OAuth2 lesson a login with the          *)
(* credentials alice / secret2 of the disabled account fails with          *)
(* "Inactive user" and returns no access token.                            *)
C10_DisabledLoginFails ==
    (/\ last.op = "login"
     /\ last.username = "alice"
     /\ last.password = "secret2")
    => /\ last.response.status_code # 200
       /\ last.response.body = [detail |-> "Inactive user"]


(* C11 (as claimed): every call of authenticate_user verifies a password   *)
(* hash before it returns, also for a name the directory does not hold;    *)
(* the not-found path makes the same calls as the wrong-password path.     *)
C11_AlwaysVerifiesAHash ==
    last.op = "login_for_access_token"
    => /\ \E i \in DOMAIN last.steps : last.steps[i] = "verify_password"
       /\ Falsy(last.user) => last.steps = <<"get_user", "verify_password">>


-----------------------------------------------------------------------------
(* Vocabulary of the properties of the dependencies *)

\* the parameter is present and is not the expected value
Invalid(parameter, expected) == parameter # <<>> /\ parameter[1] # expected

LastIsRequestTo(app) == last.op = "request" /\ last.route.app = app

(* C12: with the check list [verify_token, verify_key], as application     *)
(* dependencies (lesson 25) or decorator dependencies (lesson 23), a       *)
(* request whose X-Token is rejected by verify_token never reaches         *)
(* verify_key nor the endpoint function, and the response is the denial of *)
(* verify_token with its X-Token detail, whatever X-Key is.                *)
C12_TokenDenialStopsThePipeline ==
    /\ (/\ LastIsRequestTo("global_dependencies")
        /\ Invalid(last.request.x_token, "fake-super-secret-token"))
       => /\ last.calls = <<"verify_token">>
          /\ ~last.handler_ran
          /\ last.response
               = ExceptionResponse(verify_token(last.request.x_token[1]).exc)
          /\ last.response.body.detail = "Invalid X-Token header"
    /\ (/\ LastIsRequestTo("dependencies_in_decorators")
        /\ Invalid(last.request.x_token, "fake-super-secret-token"))
       => /\ last.calls = <<"verify_token_23">>
          /\ ~last.handler_ran
          /\ last.response
               = ExceptionResponse(verify_token_23(last.request.x_token[1]).exc)
          /\ last.response.body.detail = "X-Token header invalid"

C12_Witness ==
    /\ LastIsRequestTo("global_dependencies")
    /\ last.request.x_token = <<"wrong">>
    /\ last.request.x_key = <<"wrong">>
    /\ last.calls = <<"verify_token">>
    /\ last.response.status_code = 400

(* C13: in the bigger-applications app the checks run in the order         *)
(* get_query_token (application), get_token_header (items router, included *)
(* admin router), endpoint function, and a denial stops the rest: on       *)
(* /items/* and /admin/* a request with an invalid query token and an      *)
(* invalid X-Token is denied by get_query_token and get_token_header is    *)
(* not called.                                                             *)
C13_ApplicationThenGroupThenOperation ==
    LastIsRequestTo("bigger_applications")
    => LET grouped == last.route.router \in {"items", "admin"} IN
       /\ (/\ grouped
           /\ Invalid(last.request.token, "jessica")
           /\ Invalid(last.request.x_token, "fake-super-secret-token"))
          => /\ last.calls = <<"get_query_token">>
             /\ ~last.handler_ran
             /\ last.response.status_code = 400
             /\ last.response.body.detail = "No Jessica token provided"
       /\ (/\ grouped
           /\ last.request.token = <<"jessica">>
           /\ last.request.x_token # <<>>)
          => /\ last.calls = <<"get_query_token", "get_token_header">>
             /\ last.handler_ran
                  <=> last.request.x_token = <<"fake-super-secret-token">>
       /\ last.handler_ran
          => last.calls = IF grouped
                          THEN <<"get_query_token", "get_token_header">>
                          ELSE <<"get_query_token">>
       /\ (Len(last.calls) > 0
           /\ Invoke(last.calls[Len(last.calls)],
                     last.request[Param(last.calls[Len(last.calls)])][1]).raised)
          => ~last.handler_ran

C13_Witness ==
    /\ LastIsRequestTo("bigger_applications")
    /\ last.route.router \in {"items", "admin"}
    /\ last.request.token = <<"wrong">>
    /\ last.request.x_token = <<"wrong">>
    /\ last.calls = <<"get_query_token">>
    /\ ~last.handler_ran

(* C14: an endpoint function of the bigger-applications app runs only in a *)
(* request in which get_query_token was called and passed (token is        *)
(* "jessica"); an endpoint function of the global-dependencies app runs    *)
(* only when verify_token and verify_key were called and passed.           *)
C14_ProcessWideCheckNeverOmitted ==
    /\ (LastIsRequestTo("bigger_applications") /\ last.handler_ran)
       => /\ \E i \in DOMAIN last.calls : last.calls[i] = "get_query_token"
          /\ last.request.token = <<"jessica">>
    /\ (LastIsRequestTo("global_dependencies") /\ last.handler_ran)
       => /\ \E i \in DOMAIN last.calls : last.calls[i] = "verify_token"
          /\ \E i \in DOMAIN last.calls : last.calls[i] = "verify_key"
          /\ last.request.x_token = <<"fake-super-secret-token">>
          /\ last.request.x_key = <<"fake-super-secret-key">>

C14_Witness ==
    /\ LastIsRequestTo("bigger_applications")
    /\ last.route.endpoint = "read_user_me"
    /\ last.handler_ran
    /\ last.calls = <<"get_query_token">>

(* C15 (as claimed): a request to the bigger-applications app without a    *)
(* token query parameter is rejected by get_query_token with status 400    *)
(* and detail "No Jessica token provided", as one with an invalid token.   *)
C15_MissingTokenIs400 ==
    (LastIsRequestTo("bigger_applications") /\ last.request.token = <<>>)
    => /\ last.response.status_code = 400
       /\ last.response.body = [detail |-> "No Jessica token provided"]
       /\ last.calls = <<"get_query_token">>

(* C16 (as claimed): in the global-dependencies app a request without      *)
(* X-Token or without X-Key is answered 422 on every endpoint, and once a  *)
(* global dependency has failed nothing after it runs: verify_key does not *)
(* run unless the X-Token check has passed, nor does the endpoint function.*)
C16_MissingHeaderIs422AndStops ==
    LastIsRequestTo("global_dependencies")
    => /\ (last.request.x_token = <<>> \/ last.request.x_key = <<>>)
          => /\ last.response.status_code = 422
             /\ ~last.handler_ran
       /\ last.request.x_token # <<"fake-super-secret-token">>
          => /\ \A i \in DOMAIN last.calls : last.calls[i] # "verify_key"
             /\ ~last.handler_ran

(* C17: a successful login of an account returns a token naming that       *)
(* account, and at every time before its expiry at which the named account *)
(* is in the directory such a token resolves to that account's record and  *)
(* to no other; when the account is active the active check passes and the *)
(* handler answers for that account.                                       *)
C17_LoginTokenResolvesToItsAccount ==
    /\ (last.op = "login_for_access_token" /\ last.response.status_code = 200)
       => /\ last.user = fake_users_db[last.username]
          /\ last.response.body.access_token.payload.sub = last.username
          /\ last.response.body.access_token \in issued
    /\ (LastTokenIssuedAndFresh
        /\ last.token.payload.sub \in DOMAIN fake_users_db)
       => /\ last.current_user
               = Return(fake_users_db[last.token.payload.sub])
          /\ last.current_user.value.username = last.token.payload.sub
          /\ ~fake_users_db[last.token.payload.sub].disabled
             => /\ last.handler_ran
                /\ last.response.status_code = 200
                /\ last.op = "read_users_me"
                   => last.response.body
                        = fake_users_db[last.token.payload.sub]

C17_Witness ==
    /\ LastTokenIssuedAndFresh
    /\ last.token \in issued_active
    /\ DOMAIN fake_users_db = Usernames
    /\ last.token.payload.sub = "alice"
    /\ last.token.payload.exp = ACCESS_TOKEN_EXPIRE_MINUTES
    /\ now = 1
    /\ last.handler_ran
    /\ last.current_user.value.username = "alice"

C20_DisablingDeniesEarlierTokens ==
    /\ \A t \in issued_active :
          (/\ now < t.payload.exp
           /\ t.payload.sub \in DOMAIN fake_users_db
           /\ fake_users_db[t.payload.sub].disabled)
          => \A endpoint \in ProtectedOps :
                LET r == ProtectedRequest(endpoint, t, fake_users_db, now) IN
                /\ ~r.handler_ran
                /\ r.response.status_code = HTTP_400_BAD_REQUEST
    /\ (/\ last.op \in ProtectedOps
        /\ last.token \in issued_active
        /\ last.handler_ran)
       => ~fake_users_db[last.token.payload.sub].disabled

C20_Witness ==
    /\ last.op \in ProtectedOps
    /\ last.token \in issued_active
    /\ now < last.token.payload.exp
    /\ last.token.payload.sub \in DOMAIN fake_users_db
    /\ fake_users_db[last.token.payload.sub].disabled
    /\ ~last.handler_ran
    /\ last.response.status_code = HTTP_400_BAD_REQUEST

(* C21: every hash get_password_hash has returned verifies true against    *)
(* the password it was made from, on every call of verify_password, and    *)
(* two calls of get_password_hash with the same password have returned     *)
(* different hashes.                                                       *)
C21_HashRoundTrip ==
    /\ \A i \in DOMAIN hashes :
          verify_password_call(hashes[i].password, hashes[i].ret)
             = Return(TRUE)
    /\ \A i, j \in DOMAIN hashes :
          (i # j /\ hashes[i].password = hashes[j].password)
          => hashes[i].ret # hashes[j].ret
    /\ (/\ last.op = "verify_password"
        /\ \E i \in DOMAIN hashes :
              /\ hashes[i].password = last.plain_password
              /\ hashes[i].ret = last.hashed_password)
       => last.result = Return(TRUE)

C21_Witness ==
    /\ Len(hashes) = 2
    /\ hashes[1].password = hashes[2].password
    /\ last.op = "verify_password"
    /\ last.plain_password = hashes[2].password
    /\ last.hashed_password = hashes[2].ret
    /\ last.result = Return(TRUE)

(* C22 (as claimed): verify_password returns False and does not raise for  *)
(* a malformed or missing stored hash, and POST /token for an account      *)
(* whose stored hash is malformed answers the invalid-credentials failure. *)
C22_MalformedHashIsFalse ==
    /\ (/\ last.op = "verify_password"
        /\ last.hashed_password \in MalformedHashes \cup {None})
       => last.result = Return(FALSE)
    /\ (/\ last.op = "login_storing"
        /\ last.hashed_password \in MalformedHashes)
       => /\ last.user = Return(False)
          /\ last.response
                = ExceptionResponse(invalid_credentials_exception)

(* C23 (as claimed): in the get-current-user lesson GET /users/me answers  *)
(* 401 when the token presented is the invalid one of its documentation,   *)
(* and a user object is returned only for the valid token.                 *)
C23_InvalidTokenIs401 ==
    (last.op = "read_users_me_28" /\ last.authorization # <<"mytoken123">>)
    => /\ last.response.status_code = HTTP_401_UNAUTHORIZED
       /\ ~last.handler_ran

(* C27: PUT /items/{item_id} of the items router answers 200 only for the  *)
(* item plumbus and 403 "You can only update the item: plumbus" for every  *)
(* other item_id, in the directory or not, and update_item runs only in a  *)
(* request whose query token and X-Token were checked and passed.          *)
C27_OnlyPlumbusIsUpdated ==
    (LastIsRequestTo("bigger_applications")
     /\ last.route.endpoint = "update_item")
    => /\ last.handler_ran
          <=> /\ last.request.token = <<"jessica">>
              /\ last.request.x_token = <<"fake-super-secret-token">>
       /\ last.handler_ran
          => /\ last.calls = <<"get_query_token", "get_token_header">>
             /\ last.request.path_param = "plumbus"
                => /\ last.response.status_code = 200
                   /\ last.response.body
                        = [item_id |-> "plumbus", name |-> "The great Plumbus"]
             /\ last.request.path_param # "plumbus"
                => /\ last.response.status_code = 403
                   /\ last.response.body
                        = [detail |-> "You can only update the item: plumbus"]
       /\ ~last.handler_ran => last.response.status_code \notin {200, 403}

C27_Witness ==
    /\ LastIsRequestTo("bigger_applications")
    /\ last.route.endpoint = "update_item"
    /\ last.request.path_param = "portal"
    /\ last.handler_ran
    /\ last.response.status_code = 403

C30_UpdateItemWritesNothing ==
    /\ fake_items_db = initial_fake_items_db
    /\ (LastIsRequestTo("bigger_applications") /\ last.handler_ran)
       => /\ (last.route.endpoint = "read_items"
              /\ last.route.router = "items")
             => last.response.body = initial_fake_items_db
          /\ (last.route.endpoint = "read_item"
              /\ last.request.path_param \in DOMAIN initial_fake_items_db)
             => last.response.body
                   = [name |-> initial_fake_items_db[
                                   last.request.path_param].name,
                      item_id |-> last.request.path_param]
          /\ (last.route.endpoint = "update_item"
              /\ last.response.status_code = 200)
             => read_item("plumbus")
                   = Return([name |-> "Plumbus", item_id |-> "plumbus"])

C30_Witness ==
    /\ LastIsRequestTo("bigger_applications")
    /\ last.route.endpoint = "update_item"
    /\ last.response.status_code = 200
    /\ last.response.body.name = "The great Plumbus"
    /\ fake_items_db["plumbus"].name = "Plumbus"

C29_IdsAreConsecutiveAndDistinct ==
    LET created == {r \in DOMAIN requests :
                       /\ requests[r].endpoint = "create_item"
                       /\ requests[r].handler_ran}
    IN  /\ next_id >= 1
        /\ DOMAIN items_db = 1..(next_id - 1)
        /\ \A r1, r2 \in created :
              r1 # r2 => requests[r1].response.body.id
                           # requests[r2].response.body.id
        /\ {requests[r].response.body.id : r \in created}
              = 1..(next_id - 1)
        /\ \A r \in created :
              items_db[requests[r].response.body.id] = requests[r].body

C29_Witness ==
    /\ Len(requests) = 2
    /\ requests[1].handler_ran
    /\ requests[2].handler_ran
    /\ requests[1].endpoint = "create_item"
    /\ requests[2].endpoint = "create_item"
    /\ requests[2].response.body.id = 1
    /\ requests[1].response.body.id = 2
    /\ requests[2].pc = "returned"
    /\ next_id = 3

(* C26: the body of a successful login, in the JWT lesson and in the       *)
(* simple OAuth2 lesson, has exactly the fields access_token and           *)
(* token_type, with token_type "bearer"; the body of a failed login has no *)
(* access_token.                                                           *)
C26_LoginBodyShape ==
    last.op \in {"login_for_access_token", "login"}
    => /\ last.response.status_code = 200
          => /\ DOMAIN last.response.body = {"access_token", "token_type"}
             /\ last.response.body.token_type = "bearer"
       /\ last.response.status_code # 200
          => "access_token" \notin DOMAIN last.response.body

C26_Witness ==
    /\ last.op = "login_for_access_token"
    /\ last.response.status_code = 200
    /\ last.response.body.token_type = "bearer"
    /\ last.response.body.access_token \in issued

(* C25: whatever other requests ran between its steps, a finished request  *)
(* of the JWT lesson was answered as it is when handled alone against the  *)
(* directory and at the clock it read.                                     *)
C25_InterleavingDoesNotChangeOutcomes ==
    last.op = "finished"
    => IF last.request.kind = "login_for_access_token"
       THEN last.response
               = login_for_access_token(last.request.username,
                                        last.request.password,
                                        last.db_read, last.clock_read)
       ELSE last.response
               = ProtectedRequest(last.request.kind, last.request.token,
                                  last.db_read, last.clock_read).response

C25_Witness ==
    /\ last.op = "finished"
    /\ last.request.kind = "read_users_me"
    /\ last.response.status_code = 200
    /\ last.db_read # fake_users_db
    /\ \E o \in inflight : o.pc = "resolved" /\ o.current_user.raised

=============================================================================
